---- MODULE Spec2Model ----
(***************************************************************************)
(* QSiteBuilder: the JSON-file key/value backend (quickstor-backend),      *)
(* the document-store adapters of the frontend and the admin panel         *)
(* (getDoc / setDoc / onSnapshot), the non-streaming AI gateway            *)
(* (callGeminiAPI, callGeminiAPIWithHistory, callOpenAI), the document     *)
(* summarizer (summarizeDocumentForContext) and the restore of a backup    *)
(* on the Settings page (handleFileChange, POST /api/data).                *)
(*                                                                         *)
(* A JSON object is a sequence of <<field, value>> pairs in insertion      *)
(* order, a JSON text is a sequence of string tokens.                      *)
(***************************************************************************)
EXTENDS Integers, Sequences, FiniteSets, TLC

\* ------------------------------------------------------------------ bounds
MaxOps == 3
MaxPolls == 3
MaxInFlight == 2
MaxCalls == 6
MaxEvents == 2

\* ------------------------------------------------------ program constants
MAX_RETRIES == 3
INITIAL_DELAY_MS == 2000
POLL_MS == 2000

\* -------------------------------------------------------------- JSON data
Keys == {"p", "q"}

Writers == {"w1", "w2"}

\* the JS value undefined (what data() of a not-found snapshot returns and
\* what allData[key] yields for a missing key)
Undefined == << <<"undefined", "undefined">> >>

\* JSON values that are not objects, all of them falsy in JS: 0, false,
\* null, ""
Zero == << <<"number", "0">> >>
False == << <<"boolean", "false">> >>
Null == << <<"null", "null">> >>
EmptyString == << <<"string", "\"\"">> >>
Scalars == {Zero, False, Null, EmptyString}

\* the documents a caller passes to setDoc
WriteDocs == {<< <<"f", "1">> >>, << <<"f", "2">> >>, << <<"g", "1">> >>}

FieldsOf(d) == {d[i][1] : i \in 1..Len(d)}

ValueAt(d, f) == LET i == CHOOSE j \in 1..Len(d) : d[j][1] = f IN d[i][2]

\* deep equality of two objects: the same fields with the same values,
\* whatever the insertion order
DeepEqual(a, b) ==
    /\ FieldsOf(a) = FieldsOf(b)
    /\ \A f \in FieldsOf(a) : ValueAt(a, f) = ValueAt(b, f)

RECURSIVE Flatten(_)
Flatten(d) == IF d = <<>> THEN <<>> ELSE <<d[1][1], d[1][2]>> \o Flatten(Tail(d))

\* JSON.stringify: undefined stays undefined, an object becomes its text
UndefinedText == <<"undefined">>
Stringify(d) == IF d = Undefined THEN UndefinedText
                ELSE IF d \in Scalars THEN <<d[1][2]>>
                ELSE <<"{">> \o Flatten(d) \o <<"}">>

\* a body that is not JSON (an HTML error page of a proxy, a cut response)
GarbageText == <<"<html>">>

ParseOk(t) ==
    \/ /\ Len(t) = 1
       /\ \E v \in Scalars : t[1] = v[1][2]
    \/ /\ Len(t) >= 2
       /\ t[1] = "{"
       /\ t[Len(t)] = "}"
       /\ (Len(t) - 2) % 2 = 0

RECURSIVE Unflatten(_)
Unflatten(t) == IF t = <<>> THEN <<>>
                ELSE << <<t[1], t[2]>> >> \o Unflatten(Tail(Tail(t)))

\* JSON.parse of a text for which ParseOk holds
Parse(t) == IF Len(t) = 1 THEN CHOOSE v \in Scalars : t[1] = v[1][2]
            ELSE Unflatten(SubSeq(t, 2, Len(t) - 1))

\* the object spread {...e, ...d}
RECURSIVE SpreadOver(_, _)
SpreadOver(e, d) ==
    IF e = <<>> THEN <<>>
    ELSE << <<e[1][1], IF e[1][1] \in FieldsOf(d) THEN ValueAt(d, e[1][1]) ELSE e[1][2]>> >>
         \o SpreadOver(Tail(e), d)

RECURSIVE NewFields(_, _)
NewFields(e, d) ==
    IF d = <<>> THEN <<>>
    ELSE (IF d[1][1] \in FieldsOf(e) THEN <<>> ELSE <<d[1]>>) \o NewFields(e, Tail(d))

Spread(e, d) == SpreadOver(e, d) \o NewFields(e, d)

\* ------------------------------------------------------------ the backend
\* data.json: a mapping from key to document, or a content JSON.parse
\* rejects (the file between writeFile's truncating open and its last
\* write, or the leftover of two overlapping writeFile calls)
EmptyMap == [k \in Keys |-> Undefined]
Unparsable == [k \in Keys |-> << <<"unparsable", "unparsable">> >>]

readData(f) == IF f = Unparsable THEN EmptyMap ELSE f

\* if (docData): undefined, 0, false, null and "" are falsy
Truthy(v) == v # Undefined /\ v \notin Scalars

ErrorBody == <<"{", "error", "Document not found", "}">>

GetHandler(f, key) ==
    LET allData == readData(f)
        docData == allData[key]
    IN IF Truthy(docData)
       THEN [kind |-> "http", status |-> 200, body |-> Stringify(docData)]
       ELSE [kind |-> "http", status |-> 404, body |-> ErrorBody]

\* what the client's fetch can see instead of the backend's answer
Failures ==
    { [kind |-> "neterr", status |-> 0, body |-> GarbageText],
      [kind |-> "http", status |-> 500, body |-> ErrorBody],
      [kind |-> "http", status |-> 200, body |-> GarbageText] }

\* ------------------------------------------------------------ the adapter
NotFoundSnap == [threw |-> FALSE, exists |-> FALSE, data |-> Undefined]

getDocNoCatch(resp) ==
    IF resp.kind = "neterr" THEN [threw |-> TRUE, exists |-> FALSE, data |-> Undefined]
    ELSE IF resp.status # 200
         THEN IF resp.status = 404 THEN NotFoundSnap
              ELSE [threw |-> TRUE, exists |-> FALSE, data |-> Undefined]
    ELSE IF ~ParseOk(resp.body) THEN [threw |-> TRUE, exists |-> FALSE, data |-> Undefined]
    ELSE [threw |-> FALSE, exists |-> TRUE, data |-> Parse(resp.body)]

getDoc(resp) ==
    IF resp.kind = "neterr" THEN NotFoundSnap
    ELSE IF resp.status # 200 THEN NotFoundSnap
    ELSE IF ~ParseOk(resp.body) THEN NotFoundSnap
    ELSE [threw |-> FALSE, exists |-> TRUE, data |-> Parse(resp.body)]

VARIABLES
    file,      \* content of data.json
    wpc,       \* writer -> position inside setDoc / the POST handler
    wreq,      \* writer -> the setDoc call: path, data, merge, finalData; for a merge the value the path held when the read was served (held), the data of existingSnap (seen), whether the read got the backend's answer (readFailed), and whether another write to the path completed after the read (between)
    wall,      \* writer -> allData of the writer's POST handler
    ops,       \* number of setDoc and getDoc calls made
    overlap,   \* the writers' current calls overlap in time
    written,   \* keys some POST has been sent for
    settled,   \* key -> value of the last completed plain setDoc, None once another write to the key begins
    rpc,       \* reader: position inside getDoc
    rpath,     \* reader: path of the getDoc call
    rresp,     \* reader: the response its fetch saw
    rres,      \* reader: the snapshot getDoc returned
    rexp,      \* reader: settled[rpath] at the call, None once a write to rpath begins
    fpc,       \* frontend watch: position of onSnapshot / fetchData
    isActive,  \* frontend watch: the closure's isActive
    lastJson,  \* frontend watch: the closure's lastJson
    ftimer,    \* frontend watch: delay of the pending setTimeout, 0 when none
    fReads,    \* frontend watch: getDoc calls started
    fPolls,    \* frontend watch: getDoc calls answered
    fCb,       \* frontend watch: callback invocations
    fLastCb,   \* frontend watch: JSON text of the data the last callback got
    fSeen,     \* frontend watch: JSON text of the data of the last poll
    fFailed,   \* frontend watch: some poll did not get the backend's answer
    fThrew,    \* frontend watch: some callback invocation threw
    apc,       \* admin watch: position of onSnapshot
    akind,     \* admin watch: which of the two admin adapters
    ainterval, \* admin watch: period of the running setInterval, 0 when none
    aInFlight, \* admin watch: getDoc calls not yet answered
    aReads,    \* admin watch: getDoc calls started
    aCb,       \* admin watch: callback invocations
    aLastCb,   \* admin watch: JSON text of the data the last callback got
    gfn,       \* AI call: the function that runs
    gvia,      \* AI call: "generateContent" when AIService.generateContent dispatched it
    gpc,       \* AI call: "idle", "fetching", "resolved", "rejected"
    attempt,   \* AI call: the loop variable attempt
    glog,      \* AI call: the responses received, in order
    gdelays,   \* AI call: the sleep() delay after each attempt (0: no sleep)
    lastError, \* AI call: the variable lastError
    gerror,    \* AI call: the error the call rejected with
    spc,       \* summarizer: "idle", "single", "chunks", "done"
    sdoc,      \* summarizer: the text summarizeDocumentForContext was called with
    stext,     \* summarizer: text of the current (recursive) invocation
    starget,   \* summarizer: targetTokens
    sconfig,   \* summarizer: [provider, model] of the AI configuration
    schunks,   \* summarizer: chunks of the current invocation
    sbudget,   \* summarizer: targetTokens passed to summarizeSingleChunk
    ssums,     \* summarizer: chunkSummaries
    scalls,    \* summarizer: the summarizeSingleChunk calls made, in order
    spasses,   \* summarizer: invocations of summarizeDocumentForContext so far
    sresult,   \* summarizer: the text the outermost invocation returned
    rspc,      \* restore: "idle", "posting", "writing", "ok", "error"
    ls,        \* the admin panel's localStorage: key -> value, "" when the key is not set
    rsRuns,    \* restore: handleFileChange runs started
    rsBackup,  \* restore: the backup file handleFileChange was given
    rsBefore,  \* restore: localStorage when handleFileChange began
    rsBody,    \* restore: newBackendData, the body of the POST to /api/data
    rsPosts,   \* restore: POST requests to /api/data sent
    rsStatus,  \* restore: the status shown: "", "success", "error"
    rsReload,  \* restore: the reload timer is scheduled
    rsDone,    \* restore: [before, frame, ops]: the stored mapping when handleFileChange began; when the last POST succeeded, the keys no single-document write was in flight for, and ops
    prompts,   \* PromptService: this.prompts
    psRuns,    \* PromptService: the async bodies init started: [pc, stored, removed, outcome]
    psPromise, \* PromptService: index in psRuns of initializationPromise, 0 for null
    attachments, \* SectionCreator: the attachments state, a sequence of [kind, size]
    attachment,  \* AIContentFiller: the attachment state, [kind, size]
    aiSent,    \* the attachments handed to an AI generation call
    stfn,      \* streaming call: "gemini" (callGeminiAPIStream) or "openai" (callOpenAIStream)
    stpc,      \* streaming call: "idle", "reading", "returned", "threw"
    stEvents,  \* streaming call: the text deltas of the SSE data events the server sent
    stWire,    \* streaming call: the part of the response body not read yet
    fullText,  \* streaming call: the accumulated text, as the sequence of deltas appended
    stCb       \* streaming call: the onChunk invocations, [chunk, full]

storeVars == <<file, wpc, wreq, wall, ops, overlap, written, settled>>
readerVars == <<rpc, rpath, rresp, rres, rexp>>
feVars == <<fpc, isActive, lastJson, ftimer, fReads, fPolls, fCb, fLastCb, fSeen, fFailed, fThrew>>
adVars == <<apc, akind, ainterval, aInFlight, aReads, aCb, aLastCb>>
\* lastError before any assignment (undefined)
NoError == [at |-> 0, cause |-> 0, has429 |-> FALSE, placeholder |-> FALSE]

aiVars == <<gfn, gvia, gpc, attempt, glog, gdelays, lastError, gerror>>
sumVars == <<spc, sdoc, stext, starget, sconfig, schunks, sbudget, ssums, scalls, spasses, sresult>>
rsVars == <<rspc, ls, rsRuns, rsBackup, rsBefore, rsBody, rsPosts, rsStatus, rsReload, rsDone>>
psVars == <<prompts, psRuns, psPromise>>
atVars == <<attachments, attachment, aiSent>>
stVars == <<stfn, stpc, stEvents, stWire, fullText, stCb>>
appVars == <<psVars, atVars, stVars>>
vars == <<storeVars, readerVars, feVars, adVars, aiVars, sumVars, rsVars, appVars>>

None == << <<"none", "none">> >>
NoReq == [path |-> "p", data |-> <<>>, merge |-> FALSE, final |-> <<>>,
          held |-> Undefined, seen |-> Undefined, readFailed |-> FALSE, between |-> FALSE]
NullText == <<"null">>
WatchPath == "p"
NoResp == [kind |-> "none", status |-> 0, body |-> <<>>]

InFlight(w) == wpc[w] \in {"mergeRead", "posted", "handlerRead", "writing", "writingRaced"}
Writing(w) == wpc[w] \in {"writing", "writingRaced"}

\* ------------------------------------------------- backup files, restore
\* localStorage keys of the admin panel
SettingsKeys == {"quickstor_ai_config", "quickstor_system_prompt_custom",
                 "quickstor_content_filling_prompt", "quickstor_prompts"}
ContentKeys == {"quickstor_pages", "quickstor_navbar", "quickstor_footer",
                "quickstor_activeTheme", "quickstor_savedThemes",
                "quickstor_custom_sections"}
LSKeys == SettingsKeys \cup ContentKeys

\* the key 'sites/quickstor-staging' of the backend mapping
StagingKey == "q"

NoItems == [k \in LSKeys |-> ""]

\* A backup file: parses says whether JSON.parse accepts it; settings and
\* localConfig are given by the localStorage key each field goes to, ""
\* for a field that is missing or empty.
NoBackup ==
    [parses |-> FALSE, hasBackendData |-> FALSE, backendData |-> EmptyMap,
     hasSettings |-> FALSE, settings |-> NoItems,
     hasLocalConfig |-> FALSE, localConfig |-> NoItems,
     hasAppState |-> FALSE, appState |-> <<>>]

Backups ==
    { \* not JSON
      NoBackup,
      \* settings, but no backendData
      [NoBackup EXCEPT !.parses = TRUE, !.hasSettings = TRUE,
                       !.settings = [NoItems EXCEPT !["quickstor_ai_config"] = "backup"]],
      \* a v3.0 backup
      [NoBackup EXCEPT !.parses = TRUE, !.hasBackendData = TRUE,
                       !.backendData = [EmptyMap EXCEPT !["p"] = << <<"f", "1">> >>],
                       !.hasSettings = TRUE,
                       !.settings = [NoItems EXCEPT !["quickstor_ai_config"] = "backup",
                                                    !["quickstor_prompts"] = "backup"],
                       !.hasAppState = TRUE, !.appState = << <<"pages", "1">> >>],
      \* a v2.0 backup
      [NoBackup EXCEPT !.parses = TRUE, !.hasBackendData = TRUE,
                       !.backendData = [EmptyMap EXCEPT ![StagingKey] = << <<"g", "1">> >>],
                       !.hasLocalConfig = TRUE,
                       !.localConfig = [NoItems EXCEPT !["quickstor_ai_config"] = "backup",
                                                       !["quickstor_pages"] = "\"2\""]],
      \* backend data only, with a number as a value
      [NoBackup EXCEPT !.parses = TRUE, !.hasBackendData = TRUE,
                       !.backendData = [EmptyMap EXCEPT !["p"] = Zero]],
      \* backend data only, the empty mapping
      [NoBackup EXCEPT !.parses = TRUE, !.hasBackendData = TRUE] }

\* no attachment (the state null of AIContentFiller)
NoAttachment == [kind |-> "none", size |-> 0]

Init ==
    /\ file = EmptyMap
    /\ wpc = [w \in Writers |-> "idle"]
    /\ wreq = [w \in Writers |-> NoReq]
    /\ wall = [w \in Writers |-> EmptyMap]
    /\ ops = 0
    /\ overlap = FALSE
    /\ written = {}
    /\ settled = [k \in Keys |-> None]
    /\ rpc = "idle"
    /\ rpath = "p"
    /\ rresp = NoResp
    /\ rres = NotFoundSnap
    /\ rexp = None
    /\ fpc = "unsub"
    /\ isActive = FALSE
    /\ lastJson = NullText
    /\ ftimer = 0
    /\ fReads = 0
    /\ fPolls = 0
    /\ fCb = 0
    /\ fLastCb = NullText
    /\ fSeen = NullText
    /\ fFailed = FALSE
    /\ fThrew = FALSE
    /\ apc = "unsub"
    /\ akind = "interval"
    /\ ainterval = 0
    /\ aInFlight = 0
    /\ aReads = 0
    /\ aCb = 0
    /\ aLastCb = NullText
    /\ gfn = "none"
    /\ gvia = "none"
    /\ gpc = "idle"
    /\ attempt = 0
    /\ glog = <<>>
    /\ gdelays = <<>>
    /\ lastError = NoError
    /\ gerror = NoError
    /\ spc = "idle"
    /\ sdoc = <<>>
    /\ stext = <<>>
    /\ starget = 0
    /\ sconfig = [provider |-> "openai", model |-> "gpt-4o"]
    /\ schunks = <<>>
    /\ sbudget = 0
    /\ ssums = <<>>
    /\ scalls = <<>>
    /\ spasses = 0
    /\ sresult = <<>>
    /\ rspc = "idle"
    /\ ls = NoItems
    /\ rsRuns = 0
    /\ rsBackup = NoBackup
    /\ rsBefore = NoItems
    /\ rsBody = EmptyMap
    /\ rsPosts = 0
    /\ rsStatus = ""
    /\ rsReload = FALSE
    /\ rsDone = [before |-> EmptyMap, frame |-> {}, ops |-> 0]
    /\ prompts = Null
    /\ psRuns = <<>>
    /\ psPromise = 0
    /\ attachments = <<>>
    /\ attachment = NoAttachment
    /\ aiSent = {}
    /\ stfn = "gemini"
    /\ stpc = "idle"
    /\ stEvents = <<>>
    /\ stWire = <<>>
    /\ fullText = <<>>
    /\ stCb = <<>>

\* ----------------------------------------------------------------- setDoc
\* setDoc up to its first await: the merge read or the POST
SetDocStart(w, m) ==
    /\ wpc[w] \in {"idle", "ok", "failed"}
    /\ ops < MaxOps
    /\ \E p \in Keys, d \in WriteDocs :
          /\ wreq' = [wreq EXCEPT ![w] = [NoReq EXCEPT !.path = p, !.data = d, !.merge = m, !.final = d]]
          /\ wpc' = [wpc EXCEPT ![w] = IF m THEN "mergeRead" ELSE "posted"]
          /\ settled' = [settled EXCEPT ![p] = None]
          /\ rexp' = IF rpc = "reading" /\ rpath = p THEN None ELSE rexp
    /\ ops' = ops + 1
    /\ overlap' = \E x \in Writers \ {w} : InFlight(x)
    /\ UNCHANGED <<file, wall, written, rpc, rpath, rresp, rres, feVars, adVars, appVars, aiVars, sumVars, rsVars>>

\* a merge in which the existing fields win
finalDataExistingWins(existingSnap, data) ==
    IF existingSnap.exists THEN Spread(data, existingSnap.data) ELSE data

\* if (existingSnap.exists()) finalData = {...existingSnap.data(), ...data}
finalData(existingSnap, data) ==
    IF existingSnap.exists THEN Spread(existingSnap.data, data) ELSE data

\* the merge read answers
SetDocMergeRead(w) ==
    /\ wpc[w] = "mergeRead"
    /\ \E resp \in {GetHandler(file, wreq[w].path)} \cup Failures :
          LET existingSnap == getDoc(resp)
          IN wreq' = [wreq EXCEPT ![w].final = finalData(existingSnap, wreq[w].data),
                                  ![w].held = readData(file)[wreq[w].path],
                                  ![w].seen = existingSnap.data,
                                  ![w].readFailed = resp \in Failures]
    /\ wpc' = [wpc EXCEPT ![w] = "posted"]
    /\ UNCHANGED <<file, wall, ops, overlap, written, settled, readerVars, feVars, adVars, appVars, aiVars, sumVars, rsVars>>

\* the POST never gets an ok answer (fetch rejects, a proxy answers 5xx):
\* setDoc logs and rethrows
PostFail(w) ==
    /\ wpc[w] = "posted"
    /\ wpc' = [wpc EXCEPT ![w] = "failed"]
    /\ UNCHANGED <<file, wreq, wall, ops, overlap, written, settled, readerVars, feVars, adVars, appVars, aiVars, sumVars, rsVars>>

\* POST handler: const allData = await readData()
PostReadData(w) ==
    /\ wpc[w] = "posted"
    /\ wall' = [wall EXCEPT ![w] = readData(file)]
    /\ wpc' = [wpc EXCEPT ![w] = "handlerRead"]
    /\ written' = written \cup {wreq[w].path}
    /\ UNCHANGED <<file, wreq, ops, overlap, settled, readerVars, feVars, adVars, appVars, aiVars, sumVars, rsVars>>

\* POST handler: allData[docPath] = newData, then writeFile opens data.json
\* (flag 'w' truncates it)
PostWriteOpen(w) ==
    /\ wpc[w] = "handlerRead"
    /\ wall' = [wall EXCEPT ![w][wreq[w].path] = Parse(Stringify(wreq[w].final))]
    /\ file' = Unparsable
    /\ wpc' = [x \in Writers |->
                 IF x = w THEN (IF rspc = "writing" \/ \E y \in Writers \ {w} : Writing(y)
                               THEN "writingRaced" ELSE "writing")
                 ELSE IF Writing(x) THEN "writingRaced" ELSE wpc[x]]
    /\ UNCHANGED <<wreq, ops, overlap, written, settled, readerVars, feVars, adVars, appVars, aiVars, sumVars, rsVars>>

\* POST handler: writeFile finishes, res.json({success: true}); setDoc
\* returns.  Two writeFile calls on the same file that overlapped can leave
\* the bytes of both.
PostWriteDone(w) ==
    /\ Writing(w)
    /\ file' \in {wall[w]} \cup (IF wpc[w] = "writingRaced" THEN {Unparsable} ELSE {})
    /\ wpc' = [wpc EXCEPT ![w] = "ok"]
    /\ wall' = [wall EXCEPT ![w] = EmptyMap]
    /\ settled' = [settled EXCEPT ![wreq[w].path] =
                      IF ~wreq[w].merge /\ ~\E x \in Writers \ {w} : InFlight(x) /\ wreq[x].path = wreq[w].path
                      THEN wreq[w].data ELSE None]
    /\ wreq' = [x \in Writers |->
                  IF /\ x # w /\ wreq[x].merge /\ wreq[x].path = wreq[w].path
                     /\ wpc[x] \in {"posted", "handlerRead"}
                  THEN [wreq[x] EXCEPT !.between = TRUE] ELSE wreq[x]]
    /\ UNCHANGED <<ops, overlap, written, readerVars, feVars, adVars, appVars, aiVars, sumVars, rsVars>>

\* ----------------------------------------------------------------- getDoc
GetDocStart ==
    /\ rpc \in {"idle", "got"}
    /\ ops < MaxOps
    /\ \E p \in Keys :
          /\ rpath' = p
          /\ rexp' = settled[p]
    /\ rpc' = "reading"
    /\ ops' = ops + 1
    /\ UNCHANGED <<file, wpc, wreq, wall, overlap, written, settled, rresp, rres, feVars, adVars, appVars, aiVars, sumVars, rsVars>>

GetDocDone ==
    /\ rpc = "reading"
    /\ \E resp \in {GetHandler(file, rpath)} \cup Failures :
          /\ rresp' = resp
          /\ rres' = getDoc(resp)
    /\ rpc' = "got"
    /\ UNCHANGED <<storeVars, rpath, rexp, feVars, adVars, appVars, aiVars, sumVars, rsVars>>

\* ------------------------------------------------- onSnapshot (frontend)
LastJsonInitUndefined == UndefinedText
LastJsonInit == NullText

\* if (!isActive) return;
FetchGuardNone(active) == TRUE
FetchGuard(active) == active

\* what follows the try/catch around the poll: if (isActive) setTimeout(fetchData, 2000)
FetchDataNextNoCatch(active, threw) ==
    IF threw THEN [pc |-> "ended", timer |-> 0]
    ELSE IF active THEN [pc |-> "timer", timer |-> POLL_MS]
    ELSE [pc |-> "ended", timer |-> 0]
FetchDataNext(active, threw) ==
    IF active THEN [pc |-> "timer", timer |-> POLL_MS]
    ELSE [pc |-> "ended", timer |-> 0]

\* onSnapshot(docRef, callback): the closure's variables, then fetchData()
\* up to its await
FeSubscribe ==
    /\ fpc = "unsub"
    /\ isActive' = TRUE
    /\ lastJson' = LastJsonInit
    /\ fpc' = "fetching"
    /\ fReads' = 1
    /\ UNCHANGED <<storeVars, readerVars, adVars, appVars, aiVars, ftimer, fPolls, fCb, fLastCb, fSeen, fFailed, fThrew, sumVars, rsVars>>

\* the setTimeout fires: fetchData() up to its await
FeTimer ==
    /\ fpc = "timer"
    /\ ftimer' = 0
    /\ IF FetchGuard(isActive)
       THEN /\ fReads < MaxPolls
            /\ fpc' = "fetching"
            /\ fReads' = fReads + 1
       ELSE /\ fpc' = "stopped"
            /\ fReads' = fReads
    /\ UNCHANGED <<storeVars, readerVars, adVars, appVars, aiVars, isActive, lastJson, fPolls, fCb, fLastCb, fSeen, fFailed, fThrew, sumVars, rsVars>>

\* getDoc answers: the comparison with lastJson, the callback (which may
\* throw), the catch, the next setTimeout
FePollDone ==
    /\ fpc = "fetching"
    /\ \E resp \in {GetHandler(file, WatchPath)} \cup Failures, cbThrows \in BOOLEAN :
          LET snap == getDoc(resp)
              currentJson == Stringify(snap.data)
              fire == ~snap.threw /\ currentJson # lastJson
              nxt == FetchDataNext(isActive, snap.threw \/ (fire /\ cbThrows))
          IN /\ lastJson' = IF fire THEN currentJson ELSE lastJson
             /\ fCb' = IF fire THEN fCb + 1 ELSE fCb
             /\ fLastCb' = IF fire THEN Stringify(snap.data) ELSE fLastCb
             /\ fSeen' = currentJson
             /\ fFailed' = (fFailed \/ resp \in Failures)
             /\ fThrew' = (fThrew \/ (fire /\ cbThrows))
             /\ fpc' = nxt.pc
             /\ ftimer' = nxt.timer
    /\ fPolls' = fPolls + 1
    /\ UNCHANGED <<storeVars, readerVars, adVars, appVars, aiVars, isActive, fReads, sumVars, rsVars>>

\* the function onSnapshot returned: isActive = false
FeCancel ==
    /\ fpc \in {"fetching", "timer"}
    /\ isActive
    /\ isActive' = FALSE
    /\ UNCHANGED <<storeVars, readerVars, adVars, appVars, aiVars, fpc, lastJson, ftimer, fReads, fPolls, fCb, fLastCb, fSeen, fFailed, fThrew, sumVars, rsVars>>

\* ---------------------------------------------------- onSnapshot (admin)
\* "interval": quickstor-admin/src/firebase.js, fetchData() and setInterval;
\* "once": the adapter that fetches once and returns a no-op unsubscribe
AdminKinds == {"interval", "once"}

AdSubscribe ==
    /\ apc = "unsub"
    /\ \E k \in AdminKinds :
          /\ akind' = k
          /\ ainterval' = IF k = "interval" THEN POLL_MS ELSE 0
    /\ apc' = "active"
    /\ aInFlight' = 1
    /\ aReads' = 1
    /\ UNCHANGED <<storeVars, readerVars, feVars, aiVars, appVars, aCb, aLastCb, sumVars, rsVars>>

\* the interval fires: fetchData() up to its await
AdTick ==
    /\ ainterval # 0
    /\ aReads < MaxPolls
    /\ aInFlight < MaxInFlight
    /\ aInFlight' = aInFlight + 1
    /\ aReads' = aReads + 1
    /\ UNCHANGED <<storeVars, readerVars, feVars, aiVars, appVars, apc, akind, ainterval, aCb, aLastCb, sumVars, rsVars>>

\* a getDoc answers: callback(snap)
AdPollDone ==
    /\ aInFlight > 0
    /\ \E resp \in {GetHandler(file, WatchPath)} \cup Failures :
          aLastCb' = Stringify(getDoc(resp).data)
    /\ aCb' = aCb + 1
    /\ aInFlight' = aInFlight - 1
    /\ UNCHANGED <<storeVars, readerVars, feVars, aiVars, appVars, apc, akind, ainterval, aReads, sumVars, rsVars>>

\* the function onSnapshot returned: clearInterval(intervalId), or nothing
AdCancel ==
    /\ apc = "active"
    /\ apc' = "cancelled"
    /\ ainterval' = 0
    /\ UNCHANGED <<storeVars, readerVars, feVars, aiVars, appVars, akind, aInFlight, aReads, aCb, aLastCb, sumVars, rsVars>>

\* ------------------------------------------------------- the AI gateway
\* what one fetch of an AI call can end with: status 0 is a rejected fetch,
\* text says whether a 200 body holds generated text, has429 whether the
\* error message (the body's error.message, or the network error's) holds
\* the characters 429
AIResponses ==
    { [status |-> 200, text |-> TRUE, has429 |-> FALSE],
      [status |-> 200, text |-> FALSE, has429 |-> FALSE],
      [status |-> 429, text |-> FALSE, has429 |-> TRUE],
      [status |-> 503, text |-> FALSE, has429 |-> FALSE],
      [status |-> 400, text |-> FALSE, has429 |-> FALSE],
      [status |-> 400, text |-> FALSE, has429 |-> TRUE],
      [status |-> 404, text |-> FALSE, has429 |-> FALSE],
      [status |-> 500, text |-> FALSE, has429 |-> FALSE],
      [status |-> 0, text |-> FALSE, has429 |-> FALSE] }

GeminiFns == {"callGeminiAPI", "callGeminiAPIWithHistory"}

\* the Error a failing attempt throws: at is the 1-based attempt
ErrorOf(resp, n) == [at |-> n, cause |-> resp.status, has429 |-> resp.has429, placeholder |-> FALSE]

\* new Error('Failed after multiple retries')
Placeholder == [at |-> 0, cause |-> 0, has429 |-> FALSE, placeholder |-> TRUE]

IsRateLimited(resp) == resp.status = 429 \/ resp.status = 503

\* a backoff that grows by the base delay per attempt
RetryDelayLinear(n) == INITIAL_DELAY_MS * (n + 1)
\* const delay = INITIAL_DELAY_MS * Math.pow(2, attempt)
RetryDelay(n) == INITIAL_DELAY_MS * 2 ^ n

\* AIService.generateContent: dispatch on the configured provider
GenerateContent ==
    /\ gpc = "idle"
    /\ \E provider \in {"gemini", "openai"}, keyed \in BOOLEAN :
          /\ gfn' = IF provider = "openai" THEN "callOpenAI" ELSE "callGeminiAPI"
          /\ IF provider = "gemini" /\ ~keyed
             THEN /\ gpc' = "rejected"
                  /\ gerror' = [at |-> 0, cause |-> 1, has429 |-> FALSE, placeholder |-> FALSE]
             ELSE /\ gpc' = "fetching"
                  /\ gerror' = gerror
    /\ gvia' = "generateContent"
    /\ UNCHANGED <<storeVars, readerVars, feVars, adVars, appVars, attempt, glog, gdelays, lastError, sumVars, rsVars>>

\* callGeminiAPIWithHistory called by the chat (GEMINI_API_KEY set)
CallWithHistory ==
    /\ gpc = "idle"
    /\ gfn' = "callGeminiAPIWithHistory"
    /\ gvia' = "chat"
    /\ gpc' = "fetching"
    /\ UNCHANGED <<storeVars, readerVars, feVars, adVars, appVars, attempt, glog, gdelays, lastError, gerror, sumVars, rsVars>>

\* one pass of the retry loop of callGeminiAPI / callGeminiAPIWithHistory:
\* the fetch answers, then everything up to the next fetch or the end
GeminiAttempt ==
    /\ gpc = "fetching"
    /\ gfn \in GeminiFns
    /\ \E resp \in AIResponses :
          LET limited == resp.status # 0 /\ IsRateLimited(resp)
              success == resp.status = 200 /\ resp.text
              threw == ~limited /\ ~success
              err == IF threw THEN ErrorOf(resp, attempt + 1) ELSE lastError
              slept == limited \/ (threw /\ attempt < MAX_RETRIES - 1 /\ resp.has429)
              last == attempt + 1 >= MAX_RETRIES
          IN /\ glog' = Append(glog, resp)
             /\ lastError' = err
             /\ gdelays' = Append(gdelays, IF slept THEN RetryDelay(attempt) ELSE 0)
             /\ IF success
                THEN /\ gpc' = "resolved"
                     /\ attempt' = attempt
                     /\ gerror' = gerror
                ELSE /\ attempt' = attempt + 1
                     /\ gpc' = IF last THEN "rejected" ELSE "fetching"
                     /\ gerror' = IF last THEN (IF err = NoError THEN Placeholder ELSE err)
                                  ELSE gerror
    /\ UNCHANGED <<storeVars, readerVars, feVars, adVars, appVars, gfn, gvia, sumVars, rsVars>>

\* callOpenAI: one request through callOpenAIProxy
OpenAIAttempt ==
    /\ gpc = "fetching"
    /\ gfn = "callOpenAI"
    /\ \E resp \in AIResponses :
          /\ glog' = Append(glog, resp)
          /\ IF resp.status = 200
             THEN /\ gpc' = "resolved"
                  /\ gerror' = gerror
             ELSE /\ gpc' = "rejected"
                  /\ gerror' = ErrorOf(resp, 1)
    /\ UNCHANGED <<storeVars, readerVars, feVars, adVars, appVars, gfn, gvia, attempt, gdelays, lastError, sumVars, rsVars>>

\* -------------------------------------------------------- the summarizer
\* A text is a sequence of pieces <<src, lo, hi>>: the characters lo..hi-1
\* of the string src, where string 0 is the document, string k > 0 the
\* content the k-th LLM call returned, and string -1 the separator "\n\n".
Doc(n) == IF n = 0 THEN <<>> ELSE << <<0, 0, n>> >>
Separator == << <<-1, 0, 2>> >>

RECURSIVE TextLength(_)
TextLength(t) == IF t = <<>> THEN 0 ELSE (t[1][3] - t[1][2]) + TextLength(Tail(t))

\* a + b: two pieces that continue each other are one piece
Concat(a, b) ==
    IF a = <<>> THEN b
    ELSE IF b = <<>> THEN a
    ELSE LET x == a[Len(a)]
             y == b[1]
         IN IF x[1] = y[1] /\ x[3] = y[2]
            THEN SubSeq(a, 1, Len(a) - 1) \o << <<x[1], x[2], y[3]>> >> \o Tail(b)
            ELSE a \o b

RECURSIVE SubPieces(_, _, _)
SubPieces(t, a, b) ==
    IF t = <<>> \/ b <= 0 THEN <<>>
    ELSE LET n == t[1][3] - t[1][2]
             from == t[1][2] + (IF a < 0 THEN 0 ELSE IF a > n THEN n ELSE a)
             to == t[1][2] + (IF b > n THEN n ELSE b)
         IN (IF from < to THEN << <<t[1][1], from, to>> >> ELSE <<>>)
            \o SubPieces(Tail(t), a - n, b - n)

substringShort(t, a, b) ==
    LET x == IF a < 0 THEN 0 ELSE a
        y == IF b < 0 THEN 0 ELSE b
    IN IF x <= y THEN SubPieces(t, x, y - 1) ELSE SubPieces(t, y, x - 1)

\* String.prototype.substring(a, b): negative arguments count as 0, the
\* smaller argument is the start
substring(t, a, b) ==
    LET x == IF a < 0 THEN 0 ELSE a
        y == IF b < 0 THEN 0 ELSE b
    IN IF x <= y THEN SubPieces(t, x, y) ELSE SubPieces(t, y, x)

\* if (!text) return 0; return Math.ceil(text.length / 4)
estimateTokenCount(t) ==
    IF t = <<>> THEN 0
    ELSE LET n == TextLength(t) IN (n \div 4) + (IF n % 4 = 0 THEN 0 ELSE 1)

\* model names, lower-cased, by the substring getContextLimit looks for
DeepSeekModels == {"deepseek-chat"}
Gpt4Models == {"gpt-4o"}
Gpt35Models == {"gpt-3.5-turbo"}

getContextLimit(config) ==
    IF config.provider = "openai"
    THEN IF config.model \in DeepSeekModels THEN 131072
         ELSE IF config.model \in Gpt4Models THEN 128000
         ELSE IF config.model \in Gpt35Models THEN 16385
         ELSE 32000
    ELSE 1000000

\* Math.floor(contextLimit * 0.4) of the caller in the generation pipeline
SafeDocumentLimit(config) == (getContextLimit(config) * 4) \div 10

\* while (remaining.length > 0) { chunks.push(remaining.substring(0, max)); ... }
RECURSIVE Chunks(_, _)
Chunks(remaining, maxChunkChars) ==
    IF TextLength(remaining) = 0 THEN <<>>
    ELSE <<substring(remaining, 0, maxChunkChars)>>
         \o Chunks(substring(remaining, maxChunkChars, TextLength(remaining)), maxChunkChars)

\* chunkSummaries.join('\n\n')
RECURSIVE Join(_)
Join(sums) ==
    IF sums = <<>> THEN <<>>
    ELSE IF Len(sums) = 1 THEN sums[1]
    ELSE Concat(Concat(sums[1], Separator), Join(Tail(sums)))

\* what the LLM call of summarizeSingleChunk can end with: content of half
\* the chunk's length, no content, a rejected fetch, a non-2xx status of the
\* proxy, an error field in the body
LLMOutcomes == {"half", "empty", "neterr", "status", "errorField"}
LLMFailures == {"neterr", "status", "errorField"}

\* data.choices?.[0]?.message?.content || ''
Content(t, outcome, k) ==
    IF outcome = "half" /\ TextLength(t) \div 2 > 0
    THEN << <<k, 0, TextLength(t) \div 2>> >>
    ELSE <<>>

summarizeSingleChunkNoCatch(t, targetTokens, outcome, k) ==
    IF outcome \in LLMFailures
    THEN [threw |-> TRUE, text |-> <<>>]
    ELSE [threw |-> FALSE, text |-> Content(t, outcome, k)]

\* summarizeSingleChunk: the k-th LLM call; the catch returns
\* text.substring(0, targetChars)
summarizeSingleChunk(t, targetTokens, outcome, k) ==
    IF outcome \in LLMFailures
    THEN [threw |-> FALSE, text |-> substring(t, 0, targetTokens * 4)]
    ELSE [threw |-> FALSE, text |-> Content(t, outcome, k)]

FitsTargetStrict(currentTokens, targetTokens) == currentTokens < targetTokens
\* if (currentTokens <= targetTokens) return text
FitsTarget(currentTokens, targetTokens) == currentTokens <= targetTokens

Min(a, b) == IF a <= b THEN a ELSE b

\* summarizeDocumentForContext up to its first await
Enter(t, targetTokens, config) ==
    LET currentTokens == estimateTokenCount(t)
        maxChunkTokens == getContextLimit(config) \div 4
        maxChunkChars == maxChunkTokens * 4
        chunks == Chunks(t, maxChunkChars)
    IN IF FitsTarget(currentTokens, targetTokens)
       THEN [pc |-> "done", chunks |-> <<>>, budget |-> 0, result |-> t]
       ELSE IF currentTokens < maxChunkTokens
       THEN [pc |-> "single", chunks |-> <<t>>, budget |-> targetTokens, result |-> <<>>]
       ELSE [pc |-> "chunks", chunks |-> chunks,
             budget |-> Min(maxChunkTokens \div 10, targetTokens \div Len(chunks)),
             result |-> <<>>]

\* the inputs of a call
TextLengths == {4, 5, 8000, 30000, 60000}
Configs == { [provider |-> "openai", model |-> "gpt-3.5-turbo"],
             [provider |-> "openai", model |-> "llama3"] }
Targets(config) == {1, 500, SafeDocumentLimit(config)}

SummarizeStart ==
    /\ spc = "idle"
    /\ \E n \in TextLengths, config \in Configs :
          \E targetTokens \in Targets(config) :
             LET e == Enter(Doc(n), targetTokens, config)
             IN /\ sdoc' = Doc(n)
                /\ stext' = Doc(n)
                /\ starget' = targetTokens
                /\ sconfig' = config
                /\ spc' = e.pc
                /\ schunks' = e.chunks
                /\ sbudget' = e.budget
                /\ sresult' = e.result
    /\ spasses' = 1
    /\ UNCHANGED <<storeVars, readerVars, feVars, adVars, appVars, aiVars, rsVars, ssums, scalls>>

\* the single call answers: return await summarizeSingleChunk(text, targetTokens, config)
SummarizeSingle ==
    /\ spc = "single"
    /\ Len(scalls) < MaxCalls
    /\ \E outcome \in LLMOutcomes :
          LET r == summarizeSingleChunk(schunks[1], sbudget, outcome, Len(scalls) + 1)
          IN /\ scalls' = Append(scalls, [text |-> schunks[1], budget |-> sbudget,
                                          outcome |-> outcome, out |-> r.text])
             /\ spc' = IF r.threw THEN "rejected" ELSE "done"
             /\ sresult' = r.text
    /\ UNCHANGED <<storeVars, readerVars, feVars, adVars, appVars, aiVars, rsVars,
                   sdoc, stext, starget, sconfig, schunks, sbudget, ssums, spasses>>

\* the call for chunk i answers; after the last chunk the summaries are
\* joined and, when still above the target, summarized again
SummarizeChunk ==
    /\ spc = "chunks"
    /\ Len(scalls) < MaxCalls
    /\ \E outcome \in LLMOutcomes :
          LET i == Len(ssums) + 1
              r == summarizeSingleChunk(schunks[i], sbudget, outcome, Len(scalls) + 1)
              chunkSummaries == Append(ssums, r.text)
              combinedSummary == Join(chunkSummaries)
              e == Enter(combinedSummary, starget, sconfig)
          IN /\ scalls' = Append(scalls, [text |-> schunks[i], budget |-> sbudget,
                                          outcome |-> outcome, out |-> r.text])
             /\ IF r.threw
                THEN /\ spc' = "rejected"
                     /\ UNCHANGED <<stext, schunks, sbudget, ssums, spasses, sresult>>
                ELSE IF i < Len(schunks)
                THEN /\ ssums' = chunkSummaries
                     /\ UNCHANGED <<spc, stext, schunks, sbudget, spasses, sresult>>
                ELSE IF estimateTokenCount(combinedSummary) > starget
                THEN /\ stext' = combinedSummary
                     /\ spc' = e.pc
                     /\ schunks' = e.chunks
                     /\ sbudget' = e.budget
                     /\ sresult' = e.result
                     /\ ssums' = <<>>
                     /\ spasses' = spasses + 1
                ELSE /\ spc' = "done"
                     /\ sresult' = combinedSummary
                     /\ ssums' = chunkSummaries
                     /\ UNCHANGED <<stext, schunks, sbudget, spasses>>
    /\ UNCHANGED <<storeVars, readerVars, feVars, adVars, appVars, aiVars, rsVars, sdoc, starget, sconfig>>

\* ------------------------------------------ Settings: restore a backup
\* JSON.parse of a localStorage content item ("" stands for a missing one)
ParseItem(v) == IF v = "" THEN "null" ELSE IF v = "\"2\"" THEN "2" ELSE "1"

\* step 1: localStorage.setItem for each settings field the backup holds
RestoreSettings(items, backup) ==
    LET from == IF backup.hasSettings THEN backup.settings
                ELSE IF backup.hasLocalConfig THEN backup.localConfig
                ELSE NoItems
    IN [k \in LSKeys |-> IF k \in SettingsKeys /\ from[k] # "" THEN from[k] ELSE items[k]]

\* stagingStateToRestore: appState, or rebuilt from a v2.0 localConfig
StagingState(backup) ==
    IF backup.hasAppState THEN backup.appState
    ELSE IF backup.hasLocalConfig
    THEN << <<"pages", ParseItem(backup.localConfig["quickstor_pages"])>>,
            <<"navbar", ParseItem(backup.localConfig["quickstor_navbar"])>>,
            <<"footer", ParseItem(backup.localConfig["quickstor_footer"])>>,
            <<"savedThemes", ParseItem(backup.localConfig["quickstor_savedThemes"])>>,
            <<"theme", ParseItem(backup.localConfig["quickstor_activeTheme"])>>,
            <<"customSections", ParseItem(backup.localConfig["quickstor_custom_sections"])>> >>
    ELSE None

\* steps 2 and 3: newBackendData = {...backup.backendData} with the staging
\* state merged into 'sites/quickstor-staging'
NewBackendData(backup) ==
    LET base == backup.backendData
        st == StagingState(backup)
        node == IF Truthy(base[StagingKey]) THEN base[StagingKey] ELSE <<>>
    IN IF st = None THEN base
       ELSE [base EXCEPT ![StagingKey] =
                Spread(Spread(node, st), << <<"version", "RESTORED">>, <<"lastUpdated", "now">> >>)]

\* JSON.stringify(newBackendData) on the client, express.json() on the server
Transfer(m) == [k \in Keys |-> IF m[k] = Undefined THEN Undefined ELSE Parse(Stringify(m[k]))]

\* a handler that restores the settings before it validates the backup
handleFileChangeLateValidation(items, backup) ==
    IF ~backup.parses
    THEN [ok |-> FALSE, ls |-> items, body |-> EmptyMap]
    ELSE IF ~backup.hasBackendData
    THEN [ok |-> FALSE, ls |-> RestoreSettings(items, backup), body |-> EmptyMap]
    ELSE [ok |-> TRUE, ls |-> RestoreSettings(items, backup), body |-> NewBackendData(backup)]

\* handleFileChange from JSON.parse to the fetch: ok says whether the POST
\* is sent
handleFileChange(items, backup) ==
    IF ~backup.parses \/ ~backup.hasBackendData
    THEN [ok |-> FALSE, ls |-> items, body |-> EmptyMap]
    ELSE [ok |-> TRUE, ls |-> RestoreSettings(items, backup), body |-> NewBackendData(backup)]

\* the admin panel saves a setting or a content item in localStorage
LocalEdit ==
    /\ ops < MaxOps
    /\ rspc \in {"idle", "ok", "error"}
    /\ \E k \in {"quickstor_ai_config", "quickstor_custom_sections"} :
          ls' = [ls EXCEPT ![k] = "local"]
    /\ ops' = ops + 1
    /\ UNCHANGED <<file, wpc, wreq, wall, overlap, written, settled, readerVars, feVars, adVars, appVars,
                   aiVars, sumVars, rspc, rsRuns, rsBackup, rsBefore, rsBody, rsPosts, rsStatus, rsReload, rsDone>>

\* handleFileChange: the user picks a file and confirms; runs to the fetch
\* of the POST or to the catch
RestoreStart ==
    /\ rspc \in {"idle", "ok", "error"}
    /\ ops < MaxOps
    /\ \E backup \in Backups :
          LET h == handleFileChange(ls, backup)
          IN /\ rsBackup' = backup
             /\ rsBefore' = ls
             /\ ls' = h.ls
             /\ rsBody' = IF h.ok THEN h.body ELSE rsBody
             /\ rspc' = IF h.ok THEN "posting" ELSE "error"
             /\ rsStatus' = IF h.ok THEN "" ELSE "error"
             /\ rsPosts' = IF h.ok THEN rsPosts + 1 ELSE rsPosts
    /\ rsReload' = FALSE
    /\ rsDone' = [rsDone EXCEPT !.before = readData(file)]
    /\ rsRuns' = rsRuns + 1
    /\ ops' = ops + 1
    /\ UNCHANGED <<file, wpc, wreq, wall, overlap, written, settled, readerVars, feVars, adVars, appVars,
                   aiVars, sumVars>>

\* the POST does not get an ok answer: the catch shows the error
RestorePostFail ==
    /\ rspc = "posting"
    /\ rspc' = "error"
    /\ rsStatus' = "error"
    /\ UNCHANGED <<storeVars, readerVars, feVars, adVars, appVars, aiVars, sumVars,
                   ls, rsRuns, rsBackup, rsBefore, rsBody, rsPosts, rsReload, rsDone>>

\* POST /api/data: the body is an object, writeData opens data.json
RestoreWriteOpen ==
    /\ rspc = "posting"
    /\ file' = Unparsable
    /\ wpc' = [x \in Writers |-> IF Writing(x) THEN "writingRaced" ELSE wpc[x]]
    /\ rspc' = "writing"
    /\ rsBody' = Transfer(rsBody)
    /\ UNCHANGED <<wreq, wall, ops, overlap, written, settled, readerVars, feVars, adVars, appVars,
                   aiVars, sumVars, ls, rsRuns, rsBackup, rsBefore, rsPosts, rsStatus, rsReload, rsDone>>

\* POST /api/data: writeFile finishes and the handler answers success;
\* handleFileChange removes the content keys and schedules the reload
RestoreWriteDone ==
    /\ rspc = "writing"
    /\ file' \in {rsBody} \cup
                (IF file # Unparsable \/ \E w \in Writers : Writing(w) THEN {Unparsable} ELSE {})
    /\ ls' = [k \in LSKeys |-> IF k \in ContentKeys THEN "" ELSE ls[k]]
    /\ rspc' = "ok"
    /\ rsStatus' = "success"
    /\ rsReload' = TRUE
    /\ rsDone' = [before |-> rsDone.before,
                  frame |-> {k \in Keys : ~\E w \in Writers : InFlight(w) /\ wreq[w].path = k},
                  ops |-> ops]
    /\ settled' = [k \in Keys |-> None]
    /\ rexp' = None
    /\ UNCHANGED <<wpc, wreq, wall, ops, overlap, written, rpc, rpath, rresp, rres, feVars, adVars, appVars,
                   aiVars, sumVars, rsRuns, rsBackup, rsBefore, rsBody, rsPosts>>

\* ---------------------------------------------------------- PromptService
CACHE_KEY == "quickstor_prompts"

\* what a restored backup's settings.prompts can put under CACHE_KEY: the
\* JSON of customised prompts, the JSON null, a text JSON.parse rejects
CustomPromptsItem == "{\"system.default\":\"mine\"}"
StoredPrompts == {CustomPromptsItem, "null", "[object Object]"}

\* the characters of a localStorage item, as a JSON text
ItemText(v) ==
    IF v = CustomPromptsItem THEN <<"{", "system.default", "\"mine\"", "}">> ELSE <<v>>

\* the content of /prompts.json
DefaultPrompts == << <<"system.default", "\"You are\"">>, <<"theme.generation", "\"Generate\"">> >>
DefaultsResponse == [kind |-> "http", status |-> 200, body |-> Stringify(DefaultPrompts)]

\* { system: { default: "" } }
FallbackPrompts == << <<"system.default", "\"\"">> >>

\* what fetch('/prompts.json') can end with
PromptFetches == {DefaultsResponse} \cup Failures

\* init, step 1: the cached entry. done: the body returns with prompts
\* set; remove: the entry did not parse and is removed
initCache(stored) ==
    IF stored = "" THEN [done |-> FALSE, remove |-> FALSE, prompts |-> Null]
    ELSE IF ParseOk(ItemText(stored))
    THEN [done |-> TRUE, remove |-> FALSE, prompts |-> Parse(ItemText(stored))]
    ELSE [done |-> FALSE, remove |-> TRUE, prompts |-> Null]

initFetchNoCatch(resp) ==
    IF resp.kind = "neterr" \/ resp.status # 200 \/ ~ParseOk(resp.body)
    THEN [threw |-> TRUE, prompts |-> Null]
    ELSE [threw |-> FALSE, prompts |-> Parse(resp.body)]

\* init, step 2 and the catch: the defaults, or the fallback when the
\* fetch is rejected, the status is not ok or the body is not JSON
initFetch(resp) ==
    IF resp.kind = "neterr" \/ resp.status # 200 \/ ~ParseOk(resp.body)
    THEN [threw |-> FALSE, prompts |-> FallbackPrompts]
    ELSE [threw |-> FALSE, prompts |-> Parse(resp.body)]

\* a restore writes the backup's settings.prompts under CACHE_KEY
PromptsRestored ==
    /\ ops < MaxOps
    /\ \E v \in StoredPrompts : ls' = [ls EXCEPT ![CACHE_KEY] = v]
    /\ ops' = ops + 1
    /\ UNCHANGED <<file, wpc, wreq, wall, overlap, written, settled, readerVars, feVars, adVars,
                   aiVars, sumVars, rspc, rsRuns, rsBackup, rsBefore, rsBody, rsPosts, rsStatus,
                   rsReload, rsDone, psVars, atVars, stVars>>

\* init(): the pending or settled promise when there is one; else the
\* async body up to the fetch of /prompts.json or to its return
PsInit ==
    /\ ops < MaxOps
    /\ ops' = ops + 1
    /\ IF psPromise # 0
       THEN UNCHANGED <<ls, psVars>>
       ELSE LET stored == ls[CACHE_KEY]
                c == initCache(stored)
            IN /\ ls' = IF c.remove THEN [ls EXCEPT ![CACHE_KEY] = ""] ELSE ls
               /\ prompts' = IF c.done THEN c.prompts ELSE prompts
               /\ psRuns' = Append(psRuns, [pc |-> IF c.done THEN "resolved" ELSE "fetching",
                                            stored |-> stored, removed |-> c.remove,
                                            resp |-> NoResp])
               /\ psPromise' = Len(psRuns) + 1
    /\ UNCHANGED <<file, wpc, wreq, wall, overlap, written, settled, readerVars, feVars, adVars,
                   aiVars, sumVars, rspc, rsRuns, rsBackup, rsBefore, rsBody, rsPosts, rsStatus,
                   rsReload, rsDone, atVars, stVars>>

\* the fetch of /prompts.json of an async body settles
PsFetchDone ==
    /\ \E r \in 1..Len(psRuns), resp \in PromptFetches :
          LET d == initFetch(resp)
          IN /\ psRuns[r].pc = "fetching"
             /\ psRuns' = [psRuns EXCEPT ![r].pc = IF d.threw THEN "rejected" ELSE "resolved",
                                         ![r].resp = resp]
             /\ prompts' = IF d.threw THEN prompts ELSE d.prompts
    /\ UNCHANGED <<storeVars, readerVars, feVars, adVars, aiVars, sumVars, rsVars,
                   psPromise, atVars, stVars>>

\* resetToDefaults() up to the fetch inside its init()
PsReset ==
    /\ ops < MaxOps
    /\ ops' = ops + 1
    /\ ls' = [ls EXCEPT ![CACHE_KEY] = "", !["quickstor_system_prompt_custom"] = ""]
    /\ prompts' = Null
    /\ psRuns' = Append(psRuns, [pc |-> "fetching", stored |-> "", removed |-> FALSE,
                                 resp |-> NoResp])
    /\ psPromise' = Len(psRuns) + 1
    /\ UNCHANGED <<file, wpc, wreq, wall, overlap, written, settled, readerVars, feVars, adVars,
                   aiVars, sumVars, rspc, rsRuns, rsBackup, rsBefore, rsBody, rsPosts, rsStatus,
                   rsReload, rsDone, atVars, stVars>>

\* ------------------------------------------------------------ attachments
\* 2 * 1024 * 1024, the limit of the size tests
MAX_ATTACHMENT_BYTES == 2 * 1024 * 1024

\* the files and clipboard items a user hands over: an image or a text
\* file, at the limit or one byte above it
FileSizes == {MAX_ATTACHMENT_BYTES, MAX_ATTACHMENT_BYTES + 1}
Files == [kind : {"image", "text"}, size : FileSizes]
FileLists == {<<f>> : f \in Files} \cup {<<f, g>> : f \in Files, g \in Files}

\* the for loop of SectionCreator.handleFileSelect: a file above the limit
\* is skipped with an alert, a file the FileReader fails on is skipped
RECURSIVE SelectedFiles(_, _)
SelectedFiles(files, failed) ==
    IF files = <<>> THEN <<>>
    ELSE (IF files[1].size > MAX_ATTACHMENT_BYTES \/ Len(files) \in failed
          THEN <<>> ELSE <<files[1]>>)
         \o SelectedFiles(Tail(files), failed)

\* the for loop of SectionCreator.handlePaste: image items only
RECURSIVE PastedImages(_, _)
PastedImages(items, failed) ==
    IF items = <<>> THEN <<>>
    ELSE (IF items[1].kind # "image" \/ items[1].size > MAX_ATTACHMENT_BYTES
             \/ Len(items) \in failed
          THEN <<>> ELSE <<items[1]>>)
         \o PastedImages(Tail(items), failed)

\* SectionCreator.handleFileSelect
CreatorFileSelect ==
    /\ ops < MaxOps
    /\ \E files \in FileLists, failed \in SUBSET {1, 2} :
          attachments' = attachments \o SelectedFiles(files, failed)
    /\ ops' = ops + 1
    /\ UNCHANGED <<file, wpc, wreq, wall, overlap, written, settled, readerVars, feVars, adVars,
                   aiVars, sumVars, rsVars, psVars, attachment, aiSent, stVars>>

\* SectionCreator.handlePaste
CreatorPaste ==
    /\ ops < MaxOps
    /\ \E items \in FileLists, failed \in SUBSET {1, 2} :
          attachments' = attachments \o PastedImages(items, failed)
    /\ ops' = ops + 1
    /\ UNCHANGED <<file, wpc, wreq, wall, overlap, written, settled, readerVars, feVars, adVars,
                   aiVars, sumVars, rsVars, psVars, attachment, aiSent, stVars>>

\* SectionCreator.handleSendMessage: the attachments go to generateSectionHTML
\* or editSectionWithChat and the state is cleared
CreatorSend ==
    /\ ops < MaxOps
    /\ aiSent' = aiSent \cup {[via |-> "SectionCreator", kind |-> attachments[i].kind,
                               size |-> attachments[i].size] : i \in 1..Len(attachments)}
    /\ attachments' = <<>>
    /\ ops' = ops + 1
    /\ UNCHANGED <<file, wpc, wreq, wall, overlap, written, settled, readerVars, feVars, adVars,
                   aiVars, sumVars, rsVars, psVars, attachment, stVars>>

\* AIContentFiller.handleFileUpload: the file is read and becomes the
\* attachment; a failed read leaves the state as it is
FillerFileUpload ==
    /\ ops < MaxOps
    /\ \E f \in Files, readFails \in BOOLEAN :
          attachment' = IF readFails THEN attachment ELSE f
    /\ ops' = ops + 1
    /\ UNCHANGED <<file, wpc, wreq, wall, overlap, written, settled, readerVars, feVars, adVars,
                   aiVars, sumVars, rsVars, psVars, attachments, aiSent, stVars>>

\* AIContentFiller.handlePaste: the first image of the clipboard, else its
\* text (size: text.length), else the state stays
FillerPaste ==
    /\ ops < MaxOps
    /\ \E items \in FileLists \cup {<<>>} :
          LET images == {i \in 1..Len(items) : items[i].kind = "image"}
              first == CHOOSE i \in images : \A j \in images : i <= j
          IN attachment' = IF images # {} THEN items[first]
                           ELSE IF items # <<>> THEN items[1]
                           ELSE attachment
    /\ ops' = ops + 1
    /\ UNCHANGED <<file, wpc, wreq, wall, overlap, written, settled, readerVars, feVars, adVars,
                   aiVars, sumVars, rsVars, psVars, attachments, aiSent, stVars>>

\* AIContentFiller.handleGenerate: generateSectionContent gets the
\* attachment; the state is cleared when the generation succeeds
FillerGenerate ==
    /\ ops < MaxOps
    /\ aiSent' = IF attachment = NoAttachment THEN aiSent
                 ELSE aiSent \cup {[via |-> "AIContentFiller", kind |-> attachment.kind,
                                    size |-> attachment.size]}
    /\ \E succeeds \in BOOLEAN :
          attachment' = IF succeeds THEN NoAttachment ELSE attachment
    /\ ops' = ops + 1
    /\ UNCHANGED <<file, wpc, wreq, wall, overlap, written, settled, readerVars, feVars, adVars,
                   aiVars, sumVars, rsVars, psVars, attachments, stVars>>

\* --------------------------------------------------------- streaming calls
StreamFns == {"gemini", "openai"}

\* the text deltas an SSE data event can carry ("" for an event without text)
Deltas == {"a", "b", ""}
EventLists == UNION {[1..k -> Deltas] : k \in 0..MaxEvents}

\* A response body is a sequence of tokens: the field name "data: ", the
\* tokens of the event's JSON ("{", the delta, "}") and the line ends.
\* callOpenAIStream's server ends the stream with the line data: [DONE]
RECURSIVE EventBytes(_)
EventBytes(events) ==
    IF events = <<>> THEN <<>>
    ELSE <<"data: ", "{", events[1], "}", "\n", "\n">> \o EventBytes(Tail(events))

Wire(fn, events) ==
    EventBytes(events) \o (IF fn = "openai" THEN <<"data: ", "[DONE]", "\n", "\n">> ELSE <<>>)

\* chunk.split('\n')
RECURSIVE SplitLines(_, _)
SplitLines(chunk, line) ==
    IF chunk = <<>> THEN <<line>>
    ELSE IF chunk[1] = "\n" THEN <<line>> \o SplitLines(Tail(chunk), <<>>)
    ELSE SplitLines(Tail(chunk), Append(line, chunk[1]))

\* the body of the for loop: the text of a line that starts with 'data: '
\* and whose rest JSON.parse accepts, "" for every other line
LineDelta(fn, line) ==
    IF line = <<>> \/ line[1] # "data: " THEN ""
    ELSE IF fn = "openai" /\ line = <<"data: ", "[DONE]">> THEN ""
    ELSE IF Len(line) = 4 /\ line[2] = "{" /\ line[4] = "}" THEN line[3]
    ELSE ""

RECURSIVE ReadDeltas(_, _)
ReadDeltas(fn, lines) ==
    IF lines = <<>> THEN <<>>
    ELSE (IF LineDelta(fn, lines[1]) = "" THEN <<>> ELSE <<LineDelta(fn, lines[1])>>)
         \o ReadDeltas(fn, Tail(lines))

\* the call up to its first reader.read(): a response that is not ok throws
StreamStart ==
    /\ stpc = "idle"
    /\ \E fn \in StreamFns, events \in EventLists, ok \in BOOLEAN :
          /\ stfn' = fn
          /\ stEvents' = events
          /\ stWire' = IF ok THEN Wire(fn, events) ELSE <<>>
          /\ stpc' = IF ok THEN "reading" ELSE "threw"
    /\ fullText' = <<>>
    /\ stCb' = <<>>
    /\ UNCHANGED <<storeVars, readerVars, feVars, adVars, aiVars, sumVars, rsVars, psVars, atVars>>

\* reader.read() delivers the next n tokens of the body; the lines of the
\* chunk are handled one by one
StreamRead ==
    /\ stpc = "reading"
    /\ \E n \in 1..Len(stWire) :
          LET chunk == SubSeq(stWire, 1, n)
              ds == ReadDeltas(stfn, SplitLines(chunk, <<>>))
          IN /\ stWire' = SubSeq(stWire, n + 1, Len(stWire))
             /\ fullText' = fullText \o ds
             /\ stCb' = stCb \o [i \in 1..Len(ds) |->
                                    [chunk |-> ds[i], full |-> fullText \o SubSeq(ds, 1, i)]]
    /\ UNCHANGED <<storeVars, readerVars, feVars, adVars, aiVars, sumVars, rsVars, psVars, atVars,
                   stfn, stpc, stEvents>>

\* reader.read() rejects: the connection broke
StreamAbort ==
    /\ stpc = "reading"
    /\ stWire # <<>>
    /\ stpc' = "threw"
    /\ UNCHANGED <<storeVars, readerVars, feVars, adVars, aiVars, sumVars, rsVars, psVars, atVars,
                   stfn, stEvents, stWire, fullText, stCb>>

\* reader.read() reports done: callGeminiAPIStream throws for an empty
\* fullText, else the call returns fullText
StreamDone ==
    /\ stpc = "reading"
    /\ stWire = <<>>
    /\ stpc' = IF stfn = "gemini" /\ fullText = <<>> THEN "threw" ELSE "returned"
    /\ UNCHANGED <<storeVars, readerVars, feVars, adVars, aiVars, sumVars, rsVars, psVars, atVars,
                   stfn, stEvents, stWire, fullText, stCb>>

\* a caller of plain setDoc (the callers are interchangeable: w2's first
\* call is not before w1's)
Writer(w) ==
    \/ (w = "w2" => wpc["w1"] # "idle") /\ SetDocStart(w, FALSE)
    \/ PostFail(w)
    \/ PostReadData(w)
    \/ PostWriteOpen(w)
    \/ PostWriteDone(w)

Next ==
    \/ \E w \in Writers : Writer(w)
    \/ GetDocStart
    \/ GetDocDone

Spec == Init /\ [][Next]_vars

\* one writer and one watch on WatchPath, of the frontend or of the admin
\* panel (the watches only read the store, they do not affect each other)
FrontendWatch ==
    /\ apc = "unsub"
    /\ (FeSubscribe \/ FeTimer \/ FePollDone \/ FeCancel)

AdminWatch ==
    /\ fpc = "unsub"
    /\ (AdSubscribe \/ AdTick \/ AdPollDone \/ AdCancel)

NextWatch ==
    \/ Writer("w1")
    \/ FrontendWatch
    \/ AdminWatch

SpecWatch == Init /\ [][NextWatch]_vars

\* one non-streaming AI call
NextAI ==
    \/ GenerateContent
    \/ CallWithHistory
    \/ GeminiAttempt
    \/ OpenAIAttempt

SpecAI == Init /\ [][NextAI]_vars

\* one call of summarizeDocumentForContext
NextSum ==
    \/ SummarizeStart
    \/ SummarizeSingle
    \/ SummarizeChunk

SpecSum == Init /\ [][NextSum]_vars

\* the Settings page restores backups while a caller of setDoc and a caller
\* of getDoc use the backend
NextRestore ==
    \/ LocalEdit
    \/ RestoreStart
    \/ RestorePostFail
    \/ RestoreWriteOpen
    \/ RestoreWriteDone
    \/ Writer("w1")
    \/ GetDocStart
    \/ GetDocDone

SpecRestore == Init /\ [][NextRestore]_vars

\* a caller of setDoc with {merge: true} and a caller of plain setDoc
MergeWriter ==
    \/ SetDocStart("w1", TRUE)
    \/ SetDocMergeRead("w1")
    \/ PostFail("w1")
    \/ PostReadData("w1")
    \/ PostWriteOpen("w1")
    \/ PostWriteDone("w1")

PlainWriter ==
    \/ SetDocStart("w2", FALSE)
    \/ PostFail("w2")
    \/ PostReadData("w2")
    \/ PostWriteOpen("w2")
    \/ PostWriteDone("w2")

NextMerge ==
    \/ MergeWriter
    \/ PlainWriter

SpecMerge == Init /\ [][NextMerge]_vars

\* the prompt service of one page: restores that write the cached entry,
\* init and resetToDefaults calls, the fetches of /prompts.json
NextPrompts ==
    \/ PromptsRestored
    \/ PsInit
    \/ PsFetchDone
    \/ PsReset

SpecPrompts == Init /\ [][NextPrompts]_vars

\* a user attaches files in the section creator and in the content filler
\* and starts generations
NextAttach ==
    \/ CreatorFileSelect
    \/ CreatorPaste
    \/ CreatorSend
    \/ FillerFileUpload
    \/ FillerPaste
    \/ FillerGenerate

SpecAttach == Init /\ [][NextAttach]_vars

\* one streaming call
NextStream ==
    \/ StreamStart
    \/ StreamRead
    \/ StreamAbort
    \/ StreamDone

SpecStream == Init /\ [][NextStream]_vars

\* ------------------------------------------------------------------------
\* C1: two single-document writes to distinct keys that overlap in time and
\* both answered success leave both written values in the store.
C1_DistinctKeysBothKept ==
    (/\ wpc["w1"] = "ok" /\ wpc["w2"] = "ok"
     /\ wreq["w1"].path # wreq["w2"].path
     /\ overlap)
    => /\ file # Unparsable
       /\ \A w \in Writers : DeepEqual(file[wreq[w].path], wreq[w].final)

\* C2: setDoc(P, V) without merge that completed, then getDoc(P) with no
\* other write to P in between (and a transport that delivered the backend's
\* answer): the snapshot exists and its data is deep-equal to V.
C2_WriteThenRead ==
    (rpc = "got" /\ rexp # None /\ rresp \notin Failures)
    => (rres.exists /\ DeepEqual(rres.data, rexp))

\* C3: getDoc on a path no write ever reached returns the not-found snapshot
\* (exists() false, data() undefined) and does not throw, whatever the
\* response was (404, error status, network failure, unparsable body).
C3_NeverWrittenNotFound ==
    (rpc = "got" /\ rpath \notin written)
    => (~rres.threw /\ ~rres.exists /\ rres.data = Undefined)

C3_Witness ==
    /\ rpc = "got" /\ rpath \notin written /\ written # {}
    /\ rresp.kind = "http" /\ rresp.status = 500

\* C4: the frontend watch invokes the callback after its first poll whatever
\* the content (also for an absent document), after a later poll exactly when
\* the JSON text differs from the one passed at the previous invocation, and
\* never twice in a row with the same JSON text.
C4_FirstThenOnChange ==
    [][ /\ (fPolls' = fPolls + 1) =>
            /\ (fPolls = 0 => fCb' = fCb + 1)
            /\ (fPolls > 0 => ((fCb' = fCb + 1) <=> (fSeen' # fLastCb)))
        /\ (fCb' = fCb + 1) =>
            /\ fLastCb' = fSeen'
            /\ (fCb > 0 => fLastCb' # fLastCb) ]_vars

C4_Witness == fPolls = 3 /\ fCb = 2 /\ fLastCb # UndefinedText

\* C5: the admin watch invokes the callback once at first and afterwards only
\* when the JSON text of the document differs from the last one observed.
C5_AdminOnlyOnChange ==
    [][ (aCb' = aCb + 1 /\ aCb > 0) => aLastCb' # aLastCb ]_vars

\* C6: once the function returned by onSnapshot has been called, no further
\* backend read is started for the subscription (frontend and admin).
C6_NoReadAfterCancel ==
    [][ /\ (fpc # "unsub" /\ ~isActive) => fReads' = fReads
        /\ (apc = "cancelled") => aReads' = aReads ]_vars

C6_Witness == fpc = "stopped" /\ ~isActive /\ fPolls >= 1

\* C7: a frontend watch that has not been cancelled always has a poll in
\* flight or the next one scheduled 2 s ahead, also after failed polls and
\* after a callback that threw.
C7_KeepsPolling ==
    (fpc # "unsub" /\ isActive)
    => (fpc = "fetching" \/ (fpc = "timer" /\ ftimer = POLL_MS))

C7_Witness == isActive /\ fpc = "timer" /\ fFailed /\ fThrew /\ fPolls >= 2

\* C8: a generateContent call (Gemini or OpenAI-compatible) that receives 429
\* or 503 sends another request, unless that was attempt number MAX_RETRIES.
C8_RateLimitRetried ==
    (gvia = "generateContent" /\ gpc \in {"resolved", "rejected"})
    => \A i \in 1..Len(glog) :
          (IsRateLimited(glog[i]) /\ i < MAX_RETRIES) => Len(glog) > i

\* C9: in callGeminiAPI and callGeminiAPIWithHistory a first response with a
\* 4xx status other than 429 ends the call: one request, then rejection.
C9_ClientErrorNotRetried ==
    (/\ gfn \in GeminiFns
     /\ Len(glog) >= 1
     /\ glog[1].status >= 400 /\ glog[1].status < 500 /\ glog[1].status # 429)
    => (Len(glog) = 1 /\ gpc = "rejected")

\* C10: a callGeminiAPI call that used up its attempts rejects with the error
\* of its last attempt.
C10_LastErrorSurfaced ==
    (gfn = "callGeminiAPI" /\ gpc = "rejected" /\ Len(glog) = MAX_RETRIES)
    => (/\ ~gerror.placeholder
        /\ gerror.at = Len(glog)
        /\ gerror.cause = glog[Len(glog)].status)

\* C11: callGeminiAPI sends at most 3 HTTP requests per call, and the wait
\* after the attempt with index k (0, 1, 2) that received 429 or 503 is
\* 2000 * 2^k ms: 2000, 4000, 8000.
C11_Backoff ==
    gfn = "callGeminiAPI"
    => /\ Len(glog) <= 3
       /\ Len(gdelays) = Len(glog)
       /\ \A i \in 1..Len(glog) :
             IsRateLimited(glog[i])
             => gdelays[i] = (CASE i = 1 -> 2000 [] i = 2 -> 4000 [] OTHER -> 8000)

C11_Witness ==
    /\ gfn = "callGeminiAPI" /\ gpc = "rejected"
    /\ Len(glog) = 3
    /\ \A i \in 1..3 : IsRateLimited(glog[i])
    /\ gdelays = <<2000, 4000, 8000>>

C13_Identity ==
    (spc # "idle" /\ (TextLength(sdoc) + 3) \div 4 <= starget)
    => (spc = "done" /\ sresult = sdoc /\ scalls = <<>>)

C13_Witness ==
    /\ spc = "done" /\ TextLength(sdoc) = 4 /\ starget = 1
    /\ sresult = sdoc /\ scalls = <<>>

\* C14: a summarizeSingleChunk call whose LLM call failed returns the first
\* targetTokens * 4 characters of its chunk (the whole chunk when shorter),
\* and summarizeDocumentForContext never rejects.
C14_FallbackTruncates ==
    /\ spc # "rejected"
    /\ \A i \in 1..Len(scalls) :
          scalls[i].outcome \in LLMFailures
          => LET c == scalls[i]
                 n == TextLength(c.out)
             IN /\ n = Min(TextLength(c.text), c.budget * 4)
                /\ Concat(c.out, substring(c.text, n, TextLength(c.text))) = c.text

C14_Witness ==
    /\ spc = "done"
    /\ Len(scalls) >= 2
    /\ \A i \in 1..Len(scalls) : scalls[i].outcome \in LLMFailures
    /\ \E i \in 1..Len(scalls) : TextLength(scalls[i].out) < TextLength(scalls[i].text)
    /\ TextLength(sresult) > 0

\* C15: a restore given a backup file without backendData ends with the
\* error status and mutates nothing: no localStorage key is set or removed,
\* no POST to /api/data is sent, the backend file stays as it is.
C15_InvalidBackupNoEffect ==
    [][ (rsRuns' = rsRuns + 1 /\ ~rsBackup'.hasBackendData)
        => /\ rspc' = "error"
           /\ rsStatus' = "error"
           /\ ls' = ls
           /\ rsPosts' = rsPosts
           /\ file' = file
           /\ ~rsReload' ]_vars

C15_Witness ==
    /\ rspc = "error"
    /\ rsBackup.parses /\ ~rsBackup.hasBackendData /\ rsBackup.hasSettings
    /\ ls = rsBefore
    /\ ls["quickstor_ai_config"] = "local"
    /\ rsPosts = 0

\* C16: GET /api/data/:path answers 404 exactly when the key is absent from
\* the stored mapping, and otherwise answers the stored value, whatever
\* JSON value the mapping holds for the key.
C16_NotFoundIffAbsent ==
    [][ (rpc = "reading" /\ rpc' = "got" /\ rresp' \notin Failures)
        => LET stored == readData(file)[rpath]
           IN /\ (rresp'.status = 404) <=> (stored = Undefined)
              /\ (stored # Undefined) => (rresp'.status = 200 /\ rresp'.body = Stringify(stored)) ]_vars

\* C17: after POST /api/data with the object M answered success the stored
\* mapping is M: as long as no other call has begun since, every key no
\* single-document write was in flight for holds M's value, and is absent
\* (GET answers 404) when M does not hold it.
C17_OverwriteExact ==
    (rspc = "ok" /\ ops = rsDone.ops)
    => \A k \in rsDone.frame :
          /\ readData(file)[k] = rsBody[k]
          /\ (rsBody[k] = Undefined) => (GetHandler(file, k).status = 404)

\* x is the shallow merge of d onto e: the fields of both, d's values for
\* d's fields, e's values for the others (e = Undefined: no document)
ShallowMerge(x, e, d) ==
    LET ee == IF e = Undefined THEN <<>> ELSE e
    IN /\ FieldsOf(x) = FieldsOf(ee) \cup FieldsOf(d)
       /\ \A f \in FieldsOf(d) : ValueAt(x, f) = ValueAt(d, f)
       /\ \A f \in FieldsOf(ee) \ FieldsOf(d) : ValueAt(x, f) = ValueAt(ee, f)

\* C18: setDoc(P, D, {merge: true}) on a path that holds the object E (no
\* other write to P completing meanwhile) stores the shallow merge of D
\* onto E, and D when P is absent.
C18_MergeStoresShallowMerge ==
    [][ \A w \in Writers :
          (/\ wpc[w] = "writing" /\ wpc'[w] = "ok"
           /\ wreq[w].merge /\ ~wreq[w].between)
          => ShallowMerge(file'[wreq[w].path], wreq[w].held, wreq[w].data) ]_vars

\* C19: two single-document writes to the same key that overlap: when the
\* later of the two responses is sent the key holds the complete body of
\* that request, never a mixture, and both requests report success.
C19_LaterResponseWins ==
    [][ \A w \in Writers :
          (/\ Writing(w) /\ wpc'[w] = "ok"
           /\ overlap
           /\ \A o \in Writers \ {w} : wpc[o] = "ok" /\ wreq[o].path = wreq[w].path)
          => /\ file' # Unparsable
             /\ DeepEqual(file'[wreq[w].path], wreq[w].final) ]_vars

\* C20: a merge write whose read was followed by another completed write
\* to the same path stores (value read earlier merged with its data):
\* fields only the other write had are gone, and the call reports success.
C20_MergeOverwritesIntervening ==
    [][ \A w \in Writers :
          (/\ wpc[w] = "writing" /\ wpc'[w] = "ok"
           /\ wreq[w].merge /\ wreq[w].between)
          => ShallowMerge(file'[wreq[w].path], wreq[w].seen, wreq[w].data) ]_vars

C20_Witness ==
    /\ wpc["w1"] = "ok" /\ wreq["w1"].merge /\ wreq["w1"].between
    /\ wpc["w2"] = "ok" /\ wreq["w2"].path = wreq["w1"].path
    /\ file # Unparsable
    /\ wreq["w1"].seen # Undefined
    /\ ~(FieldsOf(wreq["w2"].data) \subseteq FieldsOf(file[wreq["w1"].path]))

\* C21: after a successful restore every key other than
\* sites/quickstor-staging (the live site's document among them) that no
\* single-document write touched meanwhile holds the value it held before
\* the restore began.
C21_LiveSiteUntouched ==
    (rspc = "ok" /\ ops = rsDone.ops)
    => \A k \in rsDone.frame \ {StagingKey} :
          readData(file)[k] = rsDone.before[k]

\* C27: when the POST of a restore fails, localStorage is as it was when
\* the restore began (no settings key overwritten, no content key removed)
\* and no reload is scheduled.
C27_RestoreAllOrNothing ==
    [][ (rspc = "posting" /\ rspc' = "error")
        => (ls' = rsBefore /\ ~rsReload') ]_vars

\* C28: a merge write whose preliminary read failed with a backend or
\* network error does not replace the stored document by its data alone:
\* the fields the document had and the data lacks are still there after
\* the call (no other write to the path meanwhile).
C28_FailedReadKeepsFields ==
    [][ \A w \in Writers :
          (/\ wpc[w] = "writing" /\ wpc'[w] = "ok"
           /\ wreq[w].merge /\ wreq[w].readFailed /\ ~wreq[w].between
           /\ wreq[w].held # Undefined)
          => \A f \in FieldsOf(wreq[w].held) \ FieldsOf(wreq[w].data) :
                /\ f \in FieldsOf(file'[wreq[w].path])
                /\ ValueAt(file'[wreq[w].path], f) = ValueAt(wreq[w].held, f) ]_vars

\* C29: a single-document write changes only its own key: a key whose last
\* write completed and that no write has been sent for since holds that
\* value whenever data.json is readable, whatever the file was like when
\* writes to other keys were handled.
C29_OtherKeysKept ==
    \A k \in Keys :
       (settled[k] # None /\ file # Unparsable)
       => DeepEqual(readData(file)[k], settled[k])

\* C25: once the function returned by the frontend onSnapshot has been called
\* (isActive = false), the callback is not invoked again, also when a poll
\* was in flight at that moment
C25_NoCallbackAfterCancel ==
    [][ ~isActive => fCb' = fCb ]_vars

\* C26: a poll of the frontend watch whose request failed invokes no
\* callback and leaves the last observed value as it was, so the callback is
\* not handed a not-found snapshot while the document is present
C26_FailedPollNoChange ==
    [][ (~fFailed /\ fFailed' /\ Truthy(readData(file)[WatchPath]))
        => (fCb' = fCb /\ lastJson' = lastJson) ]_vars


\* the texts of a sequence, one after the other
RECURSIVE ConcatAll(_)
ConcatAll(ts) ==
    IF ts = <<>> THEN <<>> ELSE Concat(ts[1], ConcatAll(Tail(ts)))

\* C24: on the chunked path the chunks are non-empty consecutive substrings
\* of at most floor(contextLimit * 0.25) * 4 characters whose concatenation
\* in order is the input of the pass; the calls of the pass are one per
\* chunk, in chunk order, and the result of a pass that ends is the
\* summaries joined in chunk order
C24_ChunksInOrder ==
    LET maxChunkChars == ((getContextLimit(sconfig) * 25) \div 100) * 4
        n == Len(ssums)
        base == Len(scalls) - n
    IN (spc = "chunks" \/ (spc = "done" /\ ssums # <<>>))
       => /\ \A i \in 1..Len(schunks) : TextLength(schunks[i]) \in 1..maxChunkChars
          /\ ConcatAll(schunks) = stext
          /\ n <= Len(schunks)
          /\ base >= 0
          /\ spasses = 1 => base = 0
          /\ \A i \in 1..n : /\ scalls[base + i].text = schunks[i]
                             /\ scalls[base + i].out = ssums[i]
          /\ spc = "done" => (n = Len(schunks) /\ sresult = Join(ssums))

C24_Witness ==
    /\ spc = "done"
    /\ Len(schunks) >= 3
    /\ Len(ssums) = Len(schunks)
    /\ \E i \in 1..Len(ssums) : ssums[i] # <<>>

\* C22: no attachment above 2 MB (2 * 1024 * 1024 bytes) is in the
\* attachment state of the section creator or of the content filler, and
\* none has been handed to an AI generation call
C22_AttachmentsCapped ==
    /\ \A i \in 1..Len(attachments) : attachments[i].size <= 2 * 1024 * 1024
    /\ attachment.size <= 2 * 1024 * 1024
    /\ \A a \in aiSent : a.size <= 2 * 1024 * 1024

\* C23: an async body of init that found a cached prompts entry JSON.parse
\* rejects removes the entry and goes on to fetch /prompts.json; when it
\* settles it resolves, with prompts the defaults if the fetch delivered
\* them and the empty fallback if not, a non-null object either way; no
\* async body of init rejects
C23_UnparsableCacheFallsBack ==
    [][ \A r \in 1..Len(psRuns') :
          LET run == psRuns'[r]
          IN /\ run.pc # "rejected"
             /\ (run.stored # "" /\ ~ParseOk(ItemText(run.stored)))
                => /\ r > Len(psRuns) => (ls'[CACHE_KEY] = "" /\ run.pc = "fetching")
                   /\ (r <= Len(psRuns) /\ psRuns[r].pc = "fetching" /\ run.pc # "fetching")
                      => /\ run.pc = "resolved"
                         /\ prompts' = IF run.resp = DefaultsResponse
                                       THEN DefaultPrompts ELSE FallbackPrompts
                         /\ prompts' # Undefined /\ prompts' \notin Scalars ]_vars

C23_Witness ==
    \E r \in 1..Len(psRuns) :
       /\ psRuns[r].stored = "[object Object]"
       /\ psRuns[r].removed
       /\ psRuns[r].pc = "resolved"
       /\ psRuns[r].resp \in Failures
       /\ prompts = FallbackPrompts
       /\ ls[CACHE_KEY] = ""

\* a delta that carries text
HasText(d) == d # ""

\* C30: the text a streaming call returns is the text deltas of all the
\* data events the server sent, in order, however the body was divided
\* into reads; and the accumulated text each onChunk invocation gets is the
\* deltas delivered up to and including that invocation
C30_StreamedTextComplete ==
    /\ stpc = "returned" => fullText = SelectSeq(stEvents, HasText)
    /\ \A i \in 1..Len(stCb) : stCb[i].full = [j \in 1..i |-> stCb[j].chunk]

====
